---- MODULE Spec2Model ----
(***************************************************************************)
(* A model of the GeoHash class of src/geohash2.py.                        *)
(*                                                                         *)
(* A Python str is a sequence of one-character strings, so 'u4' is         *)
(* <<"u", "4">> and '' is <<>>.  A Python float is the integer number of   *)
(* units of 2^-49 degree it holds, kept in two limbs of 27 bits (see Big); *)
(* float addition rounds to 53 significant bits, ties to even, as IEEE 754 *)
(* binary64 does.  The library is stateless: the state of the model is the *)
(* log of the calls a caller has made, each with its arguments and what it *)
(* returned or raised.                                                     *)
(***************************************************************************)
EXTENDS Integers, Sequences, FiniteSets, TLC

VARIABLES log

vars == <<log>>

\* ------------------------------------------------------------------------
\* Bounds of the model
\* ------------------------------------------------------------------------

\* Longest geohash enumerated over SampleChars.
MaxLen == 2
\* Longest string enumerated for the (geohash, min, max) triples.
MaxBoundLen == 2
\* Largest precision passed to encode_geohash.
MaxPrecision == 21

\* ------------------------------------------------------------------------
\* Small arithmetic helpers
\* ------------------------------------------------------------------------

Pow2(n) == 2 ^ n

Min2(a, b) == IF a <= b THEN a ELSE b

\* a | b and a & b on non-negative integers below 2^5.
BitAt(a, i) == (a \div Pow2(i)) % 2
BitOr(a, b) ==
    LET v(i) == IF BitAt(a, i) = 1 \/ BitAt(b, i) = 1 THEN Pow2(i) ELSE 0
    IN v(0) + v(1) + v(2) + v(3) + v(4)
BitAnd(a, b) ==
    LET v(i) == IF BitAt(a, i) = 1 /\ BitAt(b, i) = 1 THEN Pow2(i) ELSE 0
    IN v(0) + v(1) + v(2) + v(3) + v(4)

\* ------------------------------------------------------------------------
\* Python floats: two-limb fixed point with binary64 rounding
\* ------------------------------------------------------------------------

\* A float x is the integer N = x * 2^49, held as N = h * Limb + l with
\* 0 <= l < Limb; h carries the sign (floor representation).
Limb == Pow2(27)
UnitsPerDegreeHigh == Pow2(49 - 27)

Big(h, l) == [h |-> h, l |-> l]
\* The float of a whole number of degrees.
Deg(d) == Big(d * UnitsPerDegreeHigh, 0)

BigAdd(a, b) ==
    LET s == a.l + b.l
    IN Big(a.h + b.h + (s \div Limb), s % Limb)
BigNeg(a) == IF a.l = 0 THEN Big(-a.h, 0) ELSE Big(-a.h - 1, Limb - a.l)
BigSub(a, b) == BigAdd(a, BigNeg(b))
BigAbs(a) == IF a.h < 0 THEN BigNeg(a) ELSE a
BigLess(a, b) == a.h < b.h \/ (a.h = b.h /\ a.l < b.l)
BigLeq(a, b) == ~BigLess(b, a)
\* N / 2, exact for even N.
BigHalf(a) == Big(a.h \div 2, (a.l + (a.h % 2) * Limb) \div 2)
BigIsEven(a) == a.l % 2 = 0

\* How many low bits of a non-negative N fall outside a 53-bit significand.
DroppedBits(m) ==
    IF m.h < Pow2(53 - 27) THEN 0
    ELSE IF m.h < Pow2(54 - 27) THEN 1
    ELSE IF m.h < Pow2(55 - 27) THEN 2
    ELSE IF m.h < Pow2(56 - 27) THEN 3
    ELSE IF m.h < Pow2(57 - 27) THEN 4
    ELSE 5
\* Round a non-negative N to a multiple of 2^s, ties to the even multiple.
RoundMagnitude(m) ==
    LET s == DroppedBits(m)
        q == Pow2(s)
        r == m.l % q
        down == Big(m.h, m.l - r)
        up == BigAdd(down, Big(0, q))
        odd == (m.l \div q) % 2 = 1
    IN IF r = 0 THEN m
       ELSE IF 2 * r < q THEN down
       ELSE IF 2 * r > q THEN up
       ELSE IF odd THEN up ELSE down
\* The binary64 nearest to N.
RoundFloat(a) == IF a.h < 0 THEN BigNeg(RoundMagnitude(BigNeg(a))) ELSE RoundMagnitude(a)

\* Python's (a + b) / 2 on floats: the sum is rounded, the halving is exact.
FloatMid(a, b) == BigHalf(RoundFloat(BigAdd(a, b)))
\* Whether the model's grid holds that midpoint exactly.
FloatMidOnGrid(a, b) == BigIsEven(RoundFloat(BigAdd(a, b)))

\* ------------------------------------------------------------------------
\* Python strings
\* ------------------------------------------------------------------------

Digits == <<"0", "1", "2", "3", "4", "5", "6", "7", "8", "9">>
Lower == <<"a", "b", "c", "d", "e", "f", "g", "h", "i", "j", "k", "l", "m",
           "n", "o", "p", "q", "r", "s", "t", "u", "v", "w", "x", "y", "z">>
\* ord(c) for the digits and the lower-case letters.
Ord(c) ==
    IF \E i \in 1..10 : Digits[i] = c
    THEN 47 + (CHOOSE i \in 1..10 : Digits[i] = c)
    ELSE 96 + (CHOOSE i \in 1..26 : Lower[i] = c)

\* s < t and s <= t on Python strings: by code point, a proper prefix first.
RECURSIVE StrLess(_, _)
StrLess(s, t) ==
    IF t = <<>> THEN FALSE
    ELSE IF s = <<>> THEN TRUE
    ELSE IF Head(s) = Head(t) THEN StrLess(Tail(s), Tail(t))
    ELSE Ord(Head(s)) < Ord(Head(t))
StrLeq(s, t) == s = t \/ StrLess(s, t)

\* s[:n] for n >= 0.
Prefix(s, n) == SubSeq(s, 1, Min2(n, Len(s)))

\* ------------------------------------------------------------------------
\* Class constants
\* ------------------------------------------------------------------------

Base32 == <<"0", "1", "2", "3", "4", "5", "6", "7", "8", "9", "b", "c", "d",
            "e", "f", "g", "h", "j", "k", "m", "n", "p", "q", "r", "s", "t",
            "u", "v", "w", "x", "y", "z">>
Alphabet == {Base32[i] : i \in 1..32}
Base32Map == [c \in Alphabet |-> (CHOOSE i \in 1..32 : Base32[i] = c) - 1]

\* What a call returns, or the KeyError of a failed Base32Map lookup.
Ok(v) == [err |-> FALSE, val |-> v]
KeyError == [err |-> TRUE, val |-> <<>>]

\* ------------------------------------------------------------------------
\* encode_geohash
\* ------------------------------------------------------------------------

EncodeStart ==
    [lat_interval |-> <<Deg(-90), Deg(90)>>,
     lon_interval |-> <<Deg(-180), Deg(180)>>,
     geohash |-> <<>>, bit |-> 0, ch |-> 0, even |-> TRUE]

\* One pass of the while loop's body.
EncodeStep(st, lat, lon) ==
    LET iv == IF st.even THEN st.lon_interval ELSE st.lat_interval
        x == IF st.even THEN lon ELSE lat
        mid == FloatMid(iv[1], iv[2])
        above == BigLess(mid, x)
        ch1 == IF above THEN BitOr(st.ch, Pow2(4 - st.bit)) ELSE st.ch
        iv1 == IF above THEN <<mid, iv[2]>> ELSE <<iv[1], mid>>
    IN [lat_interval |-> IF st.even THEN st.lat_interval ELSE iv1,
        lon_interval |-> IF st.even THEN iv1 ELSE st.lon_interval,
        geohash |-> IF st.bit < 4 THEN st.geohash
                    ELSE Append(st.geohash, Base32[ch1 + 1]),
        bit |-> IF st.bit < 4 THEN st.bit + 1 ELSE 0,
        ch |-> IF st.bit < 4 THEN ch1 ELSE 0,
        even |-> ~st.even]

\* The five passes that start with bit = 0 and end by appending one character:
\* len(geohash) < precision, true when the first begins, stays true until the
\* fifth has run.
EncodeChar(st, lat, lon) ==
    EncodeStep(EncodeStep(EncodeStep(EncodeStep(EncodeStep(st, lat, lon),
        lat, lon), lat, lon), lat, lon), lat, lon)

\* EncodeLoop with the test len(geohash) <= precision.
RECURSIVE EncodeLoopOffByOne(_, _, _, _)
EncodeLoopOffByOne(st, lat, lon, precision) ==
    IF Len(st.geohash) <= precision
    THEN EncodeLoopOffByOne(EncodeChar(st, lat, lon), lat, lon, precision)
    ELSE st

\* The while loop, five passes at a time.
RECURSIVE EncodeLoop(_, _, _, _)
EncodeLoop(st, lat, lon, precision) ==
    IF Len(st.geohash) < precision
    THEN EncodeLoop(EncodeChar(st, lat, lon), lat, lon, precision)
    ELSE st

encode_geohash(lat, lon, precision) ==
    EncodeLoop(EncodeStart, lat, lon, precision).geohash

\* ------------------------------------------------------------------------
\* decode_geohash
\* ------------------------------------------------------------------------

DecodeStart ==
    [lat_interval |-> <<Deg(-90), Deg(90)>>,
     lon_interval |-> <<Deg(-180), Deg(180)>>,
     even |-> TRUE]

Masks == <<16, 8, 4, 2, 1>>

\* DecodeBit with the two halves exchanged: a set bit keeps the lower half.
DecodeBitSwapped(st, cd, mask) ==
    LET iv == IF st.even THEN st.lon_interval ELSE st.lat_interval
        mid == FloatMid(iv[1], iv[2])
        iv1 == IF BitAnd(cd, mask) # 0 THEN <<iv[1], mid>> ELSE <<mid, iv[2]>>
    IN [lat_interval |-> IF st.even THEN st.lat_interval ELSE iv1,
        lon_interval |-> IF st.even THEN iv1 ELSE st.lon_interval,
        even |-> ~st.even]

\* One pass of the inner loop's body.
DecodeBit(st, cd, mask) ==
    LET iv == IF st.even THEN st.lon_interval ELSE st.lat_interval
        mid == FloatMid(iv[1], iv[2])
        iv1 == IF BitAnd(cd, mask) # 0 THEN <<mid, iv[2]>> ELSE <<iv[1], mid>>
    IN [lat_interval |-> IF st.even THEN st.lat_interval ELSE iv1,
        lon_interval |-> IF st.even THEN iv1 ELSE st.lon_interval,
        even |-> ~st.even]

RECURSIVE DecodeMasks(_, _, _)
DecodeMasks(st, cd, masks) ==
    IF masks = <<>> THEN st
    ELSE DecodeMasks(DecodeBit(st, cd, Head(masks)), cd, Tail(masks))

\* The loop over the first n characters: the two intervals, or the KeyError
\* of the first character that is no key of the map.
RECURSIVE DecodeChars(_, _)
DecodeChars(gh, n) ==
    IF n = 0 THEN Ok(DecodeStart)
    ELSE LET r == DecodeChars(gh, n - 1)
         IN IF r.err THEN r
            ELSE IF gh[n] \notin DOMAIN Base32Map THEN KeyError
            ELSE Ok(DecodeMasks(r.val, Base32Map[gh[n]], Masks))

DecodeIntervals(gh) == DecodeChars(gh, Len(gh))

decode_geohash(gh) ==
    LET r == DecodeIntervals(gh)
    IN IF r.err THEN KeyError
       ELSE Ok(<<FloatMid(r.val.lat_interval[1], r.val.lat_interval[2]),
                 FloatMid(r.val.lon_interval[1], r.val.lon_interval[2])>>)

\* ------------------------------------------------------------------------
\* neighbor
\* ------------------------------------------------------------------------

\* __borders: per direction, the border characters of an even-length and of
\* an odd-length geohash (index type + 1).
Borders ==
    [n |-> <<{"p", "r", "x", "z"}, {"b", "c", "f", "g", "u", "v", "y", "z"}>>,
     s |-> <<{"0", "2", "8", "b"}, {"0", "1", "4", "5", "h", "j", "n", "p"}>>,
     e |-> <<{"b", "c", "f", "g", "u", "v", "y", "z"}, {"p", "r", "x", "z"}>>,
     w |-> <<{"0", "1", "4", "5", "h", "j", "n", "p"}, {"0", "2", "8", "b"}>>]

SingleDirections == {<<"n">>, <<"s">>, <<"e">>, <<"w">>}
CompoundDirections == {<<"n", "e">>, <<"n", "w">>, <<"s", "e">>, <<"s", "w">>}
Directions == SingleDirections \cup CompoundDirections

\* The character neighbor() puts in place of the last one.
NeighborChar(last_char) == Base32[((Base32Map[last_char] + 1) % 32) + 1]

\* NeighborOfBase giving up where the resolved parent is empty.
NeighborOfBaseOrEmpty(neighbor_base, last_char) ==
    IF neighbor_base = <<>> THEN <<>>
    ELSE Append(neighbor_base, NeighborChar(last_char))

\* neighbor_base + neighbor_char.
NeighborOfBase(neighbor_base, last_char) ==
    Append(neighbor_base, NeighborChar(last_char))

RECURSIVE neighbor(_, _)
neighbor(gh, direction) ==
    IF gh = <<>> THEN Ok(<<>>)
    ELSE IF direction \notin Directions THEN Ok(<<>>)
    ELSE
      LET last_char == gh[Len(gh)]
          parent == SubSeq(gh, 1, Len(gh) - 1)
          type == Len(gh) % 2
          main_dir == direction[1]
          neighbor_base ==
              IF last_char \in Borders[main_dir][type + 1]
              THEN neighbor(parent, <<main_dir>>)
              ELSE Ok(parent)
      IN IF neighbor_base.err THEN KeyError
         ELSE IF last_char \notin DOMAIN Base32Map THEN KeyError
         ELSE LET nb == NeighborOfBase(neighbor_base.val, last_char)
              IN IF Len(direction) > 1
                 THEN neighbor(nb, <<direction[2]>>)
                 ELSE Ok(nb)

\* ------------------------------------------------------------------------
\* geohash_to_int, int_to_geohash
\* ------------------------------------------------------------------------

\* The loop over the first n characters.
RECURSIVE ToIntLoop(_, _)
ToIntLoop(geohash, n) ==
    IF n = 0 THEN Ok(0)
    ELSE LET r == ToIntLoop(geohash, n - 1)
         IN IF r.err THEN r
            ELSE IF geohash[n] \notin DOMAIN Base32Map THEN KeyError
            ELSE Ok(r.val * 32 + Base32Map[geohash[n]])

geohash_to_int(geohash) == ToIntLoop(geohash, Len(geohash))

\* The loop's remaining k passes.
RECURSIVE ToGeohashLoop(_, _, _)
ToGeohashLoop(result, geohash_int, k) ==
    IF k <= 0 THEN result
    ELSE ToGeohashLoop(<<Base32[(geohash_int % 32) + 1]>> \o result,
                       geohash_int \div 32, k - 1)

\* int_to_geohash as plain base-32 formatting: no leading '0' characters.
RECURSIVE StripZeros(_)
StripZeros(s) ==
    IF s # <<>> /\ Head(s) = Base32[1] THEN StripZeros(Tail(s)) ELSE s
int_to_geohash_unpadded(geohash_int, precision) ==
    StripZeros(ToGeohashLoop(<<>>, geohash_int, precision))

int_to_geohash(geohash_int, precision) ==
    ToGeohashLoop(<<>>, geohash_int, precision)

\* ------------------------------------------------------------------------
\* quadtree_split_geo
\* ------------------------------------------------------------------------

\* An optional str argument: None, or the str.
None == [some |-> FALSE, v |-> <<>>]
Some(s) == [some |-> TRUE, v |-> s]
\* Python's truth value of it: None and '' are false.
Truthy(o) == o.some /\ o.v # <<>>

ZOrderEven ==
    <<<<"b", "c", "f", "g", "u", "v", "y", "z">>,
      <<"8", "9", "d", "e", "s", "t", "w", "x">>,
      <<"2", "3", "6", "7", "k", "m", "q", "r">>,
      <<"0", "1", "4", "5", "h", "j", "n", "p">>>>

ZOrderOdd ==
    <<<<"p", "r", "x", "z">>,
      <<"n", "q", "w", "y">>,
      <<"j", "m", "t", "v">>,
      <<"h", "k", "s", "u">>,
      <<"5", "7", "e", "g">>,
      <<"4", "6", "d", "f">>,
      <<"1", "3", "9", "c">>,
      <<"0", "2", "8", "b">>>>

\* Whether the loop stores child in children.
SplitKeeps(child, min_hash, max_hash) ==
    IF Truthy(min_hash) /\ Truthy(max_hash)
    THEN StrLeq(min_hash.v, child) /\ StrLeq(child, max_hash.v)
    ELSE TRUE

\* The matrix built from z_order_matrix: children.get(cell, '') per cell.
SplitMatrix(z_order_matrix, geohash, min_hash, max_hash) ==
    [r \in 1..Len(z_order_matrix) |->
        [c \in 1..Len(z_order_matrix[r]) |->
            LET child == Append(geohash, z_order_matrix[r][c])
            IN IF SplitKeeps(child, min_hash, max_hash) THEN child ELSE <<>>]]

quadtree_split_even(geohash, min_hash, max_hash) ==
    SplitMatrix(ZOrderEven, geohash, min_hash, max_hash)

quadtree_split_odd(geohash, min_hash, max_hash) ==
    SplitMatrix(ZOrderOdd, geohash, min_hash, max_hash)

\* quadtree_split_geo with the parity test inverted.
quadtree_split_geo_inverted(geohash, min_hash, max_hash) ==
    IF Len(geohash) % 2 = 1
    THEN quadtree_split_even(geohash, min_hash, max_hash)
    ELSE quadtree_split_odd(geohash, min_hash, max_hash)

quadtree_split_geo(geohash, min_hash, max_hash) ==
    IF Len(geohash) % 2 = 0
    THEN quadtree_split_even(geohash, min_hash, max_hash)
    ELSE quadtree_split_odd(geohash, min_hash, max_hash)

\* ------------------------------------------------------------------------
\* check_within_bounds, check_within_bounds_lexicographic
\* ------------------------------------------------------------------------

Min3(a, b, c) == Min2(a, Min2(b, c))

create_bitmask(precision) == Pow2(5 * precision) - 1

\* ShiftAndMask without the shift: the low bits instead of the high ones.
MaskOnly(value, shift, mask) == value % (mask + 1)

\* (value >> shift) & mask, for mask = 2^k - 1 and value >= 0.
ShiftAndMask(value, shift, mask) == (value \div Pow2(shift)) % (mask + 1)

check_within_bounds(geohash, min_hash, max_hash) ==
    LET precision == Min3(Len(geohash), Len(min_hash), Len(max_hash))
        mask == create_bitmask(precision)
        g == geohash_to_int(geohash)
        lo == geohash_to_int(min_hash)
        hi == geohash_to_int(max_hash)
    IN IF g.err \/ lo.err \/ hi.err THEN KeyError
       ELSE LET geohash_int ==
                    ShiftAndMask(g.val, 5 * (Len(geohash) - precision), mask)
                min_int ==
                    ShiftAndMask(lo.val, 5 * (Len(min_hash) - precision), mask)
                max_int ==
                    ShiftAndMask(hi.val, 5 * (Len(max_hash) - precision), mask)
            IN Ok(min_int <= geohash_int /\ geohash_int <= max_int)

check_within_bounds_lexicographic(geohash, min_hash, max_hash) ==
    LET precision == Min3(Len(geohash), Len(min_hash), Len(max_hash))
    IN Ok(StrLeq(Prefix(min_hash, precision), Prefix(geohash, precision))
          /\ StrLeq(Prefix(geohash, precision), Prefix(max_hash, precision)))

\* ------------------------------------------------------------------------
\* The inputs a caller passes
\* ------------------------------------------------------------------------

\* All strings of at most n characters of chars.
Strings(chars, n) == UNION {[1..k -> chars] : k \in 0..n}

\* "a" is no character of the geohash alphabet.
SampleChars == {"0", "2", "b", "p", "s", "z"}
InvalidChar == "a"
BoundChars == {"1", "4", "b"}

ExampleGeohash == <<"u", "4", "p", "r", "u", "y">>

Geohashes ==
    Strings(SampleChars \cup {InvalidChar}, MaxLen)
    \cup {<<c>> : c \in Alphabet}
    \cup {ExampleGeohash, <<"u", "4", "p", "r", "u", "z">>,
          <<"u", "4", "a", "r", "u", "y">>}

BoundStrings == Strings(BoundChars, MaxBoundLen)

\* The benchmark's calls (src/lexicographic_test.py), and a few more.
U1kwus == <<"u", "1", "k", "w", "u", "s">>
ExampleTriples ==
    {<<U1kwus, <<"u", "1", "k", "w", "u", "m">>, <<"u", "1", "k", "w", "u", "u">>>>,
     <<U1kwus, <<"u", "1", "k", "w", "s">>, <<"u", "1", "k", "w", "v">>>>,
     <<U1kwus, <<"u", "1", "k", "w", "s">>, <<"u", "1", "k", "w", "w">>>>,
     <<U1kwus, <<"u", "1">>, <<"u", "2">>>>,
     <<<<"2">>, <<"1">>, <<"4">>>>,
     <<<<"9">>, <<"8">>, <<"c">>>>,
     <<<<"z", "9">>, <<"s", "b">>, <<"z", "b", "0">>>>}

BoundTriples ==
    (BoundStrings \X BoundStrings \X BoundStrings) \cup ExampleTriples

OptionalBounds == {None} \cup {Some(b) : b \in BoundStrings}
SplitParents == Strings(BoundChars \cup {InvalidChar}, MaxBoundLen - 1)
SplitArgs ==
    {<<g, None, None>> : g \in Geohashes}
    \cup (SplitParents \X OptionalBounds \X OptionalBounds)

\* (lat, lon) pairs, each a float: (57.64911, 10.40744), (-33.5, 151.25),
\* (89.99999, -179.99999), (0, 0), (90, 180), (-90, -180), (48.8566, 2.3522),
\* (45, -90), (-71.3, 123.456).
Coordinates ==
    {<<Big(241797892, 89850716), Big(43651967, 29764123)>>,
     <<Big(-140509184, 0), Big(634388480, 0)>>,
     <<Big(377487318, 7645040), Big(-754974679, 126572688)>>,
     <<Deg(0), Deg(0)>>,
     <<Deg(90), Deg(180)>>,
     <<Deg(-90), Deg(-180)>>,
     <<Big(204919432, 108233176), Big(9865841, 116608362)>>,
     <<Deg(45), Deg(-90)>>,
     <<Big(-299053876, 107374184), Big(517811994, 83751864)>>}

Precisions == (-1)..MaxPrecision

\* The state of the loop after k more passes.
RECURSIVE EncodeSteps(_, _, _, _)
EncodeSteps(st, lat, lon, k) ==
    IF k = 0 THEN st ELSE EncodeStep(EncodeSteps(st, lat, lon, k - 1), lat, lon)

\* Whether the midpoints of the five passes from st are floats the two limbs
\* hold exactly (a float below 8 in magnitude may have bits under 2^-49).
CharOnGrid(st, lat, lon) ==
    \A k \in 0..4 :
        LET s == EncodeSteps(st, lat, lon, k)
            iv == IF s.even THEN s.lon_interval ELSE s.lat_interval
        IN FloatMidOnGrid(iv[1], iv[2])

\* Whether every midpoint encode_geohash(lat, lon, precision) computes from st
\* on, and the two midpoints decoding its result ends with, are such floats.
RECURSIVE OnGridFrom(_, _, _, _)
OnGridFrom(st, lat, lon, precision) ==
    IF Len(st.geohash) < precision
    THEN /\ CharOnGrid(st, lat, lon)
         /\ OnGridFrom(EncodeChar(st, lat, lon), lat, lon, precision)
    ELSE /\ FloatMidOnGrid(st.lat_interval[1], st.lat_interval[2])
         /\ FloatMidOnGrid(st.lon_interval[1], st.lon_interval[2])

OnGrid(lat, lon, precision) == OnGridFrom(EncodeStart, lat, lon, precision)

EncodeArgs ==
    {a \in {<<c[1], c[2], p>> : c \in Coordinates, p \in Precisions} :
        OnGrid(a[1], a[2], a[3])}

\* ------------------------------------------------------------------------
\* The caller: at most two calls, the second on what the first returned
\* ------------------------------------------------------------------------

Call(op, args, ret) == [op |-> op, args |-> args, ret |-> ret]

\* The first call, when the caller has made exactly one, op, that returned.
After(op) == Len(log) = 1 /\ log[1].op = op /\ ~log[1].ret.err

Encode ==
    \E a \in EncodeArgs :
        /\ \/ log = <<>>
           \/ After("encode_geohash") /\ a[1] = log[1].args[1] /\ a[2] = log[1].args[2]
        /\ log' = Append(log, Call("encode_geohash", a,
                                   Ok(encode_geohash(a[1], a[2], a[3]))))

Decode ==
    \E gh \in IF After("encode_geohash") THEN {log[1].ret.val}
              ELSE IF log = <<>> THEN Geohashes ELSE {} :
        log' = Append(log, Call("decode_geohash", <<gh>>, decode_geohash(gh)))

GeohashToInt ==
    /\ log = <<>>
    /\ \E s \in Geohashes :
        log' = Append(log, Call("geohash_to_int", <<s>>, geohash_to_int(s)))

IntToGeohash ==
    /\ After("geohash_to_int")
    /\ \E n \in (0..(MaxLen + 1)) \cup {Len(log[1].args[1])} :
        log' = Append(log, Call("int_to_geohash", <<log[1].ret.val, n>>,
                                Ok(int_to_geohash(log[1].ret.val, n))))

Neighbor ==
    \E gh \in IF After("neighbor") THEN {log[1].ret.val}
              ELSE IF log = <<>> THEN Geohashes ELSE {} :
        \E d \in Directions \cup {<<"x">>} :
            log' = Append(log, Call("neighbor", <<gh, d>>, neighbor(gh, d)))

QuadtreeSplitGeo ==
    /\ log = <<>>
    /\ \E a \in SplitArgs :
        log' = Append(log, Call("quadtree_split_geo", a,
                                Ok(quadtree_split_geo(a[1], a[2], a[3]))))

CheckWithinBounds ==
    /\ log = <<>>
    /\ \E a \in BoundTriples :
        log' = Append(log, Call("check_within_bounds", a,
                                check_within_bounds(a[1], a[2], a[3])))

CheckWithinBoundsLexicographic ==
    /\ Len(log) = 1 /\ log[1].op = "check_within_bounds"
    /\ LET a == log[1].args
       IN log' = Append(log, Call("check_within_bounds_lexicographic", a,
                     check_within_bounds_lexicographic(a[1], a[2], a[3])))

Init == log = <<>>

NextCodec == Encode \/ Decode \/ GeohashToInt \/ IntToGeohash
NextNeighbor == Neighbor
NextSplit == QuadtreeSplitGeo
NextBounds == CheckWithinBounds \/ CheckWithinBoundsLexicographic
Next == NextCodec \/ NextNeighbor \/ NextSplit \/ NextBounds

Spec == Init /\ [][Next]_vars
SpecCodec == Init /\ [][NextCodec]_vars
SpecNeighbor == Init /\ [][NextNeighbor]_vars
SpecSplit == Init /\ [][NextSplit]_vars
SpecBounds == Init /\ [][NextBounds]_vars

\* ------------------------------------------------------------------------
\* Vocabulary of the properties
\* ------------------------------------------------------------------------

\* A string over the 32-character alphabet.
Valid(gh) == \A i \in 1..Len(gh) : gh[i] \in Alphabet
IsPrefixOf(s, t) == Len(s) <= Len(t) /\ SubSeq(t, 1, Len(s)) = s

\* floor(a / 2^k) for a >= 0 and 0 <= k < 58.
BigShr(a, k) ==
    IF k <= 27
    THEN Big(a.h \div 2 ^ k, (a.h % 2 ^ k) * 2 ^ (27 - k) + a.l \div 2 ^ k)
    ELSE LET v == a.h \div 2 ^ (k - 27)
         IN Big(v \div Limb, v % Limb)

\* Bisections of each axis in a geohash of p characters.
LonBits(p) == (5 * p + 1) \div 2
LatBits(p) == (5 * p) \div 2

\* The precisions at which every interval bound, sum and midpoint is a float:
\* after k bisections they are multiples of 45 * 2^(3-k) below 2^9 in magnitude,
\* so they need at most k + 6 bits, which a 53-bit significand holds.
ExactPrecision == (2 * (53 - 6)) \div 5

\* The cell of a valid geohash: the intervals decode_geohash ends with.
Cell(gh) == DecodeIntervals(gh).val

Opposite(d) ==
    CASE d = <<"n">> -> <<"s">>
      [] d = <<"s">> -> <<"n">>
      [] d = <<"e">> -> <<"w">>
      [] d = <<"w">> -> <<"e">>

\* Whether the cell of gh touches the edge of the domain in direction d.
TouchesEdge(gh, d) ==
    CASE d = <<"n">> -> Cell(gh).lat_interval[2] = Deg(90)
      [] d = <<"s">> -> Cell(gh).lat_interval[1] = Deg(-90)
      [] d = <<"e">> -> Cell(gh).lon_interval[2] = Deg(180)
      [] d = <<"w">> -> Cell(gh).lon_interval[1] = Deg(-180)

\* ------------------------------------------------------------------------
\* C1
\* ------------------------------------------------------------------------

\* C1: for a non-empty geohash g over the alphabet whose cell does not touch
\* the edge of the domain in direction d (n, s, e or w), the neighbor of g in
\* direction d, stepped back in the opposite direction, is g.
NeighborSymmetry ==
    (/\ Len(log) = 2
     /\ log[1].op = "neighbor" /\ log[2].op = "neighbor"
     /\ log[1].args[1] # <<>> /\ Valid(log[1].args[1])
     /\ log[1].args[2] \in SingleDirections
     /\ ~TouchesEdge(log[1].args[1], log[1].args[2])
     /\ log[2].args = <<log[1].ret.val, Opposite(log[1].args[2])>>)
    => log[2].ret = Ok(log[1].args[1])

\* ------------------------------------------------------------------------
\* C2
\* ------------------------------------------------------------------------

\* The caller encoded (lat, lon) and decoded the result.
RoundTripDone ==
    /\ Len(log) = 2
    /\ log[1].op = "encode_geohash" /\ log[2].op = "decode_geohash"
    /\ log[1].args[3] >= 0
    /\ log[2].args = <<log[1].ret.val>>

\* (lat, lon) lies in the rectangle of the cell that was returned.
RoundTripContained ==
    LET c == Cell(log[1].ret.val)
    IN /\ BigLeq(c.lat_interval[1], log[1].args[1])
       /\ BigLeq(log[1].args[1], c.lat_interval[2])
       /\ BigLeq(c.lon_interval[1], log[1].args[2])
       /\ BigLeq(log[1].args[2], c.lon_interval[2])

\* decode_geohash returned the midpoint, as Python computes it, of that cell.
RoundTripMidpoint ==
    LET c == Cell(log[1].ret.val)
    IN log[2].ret = Ok(<<FloatMid(c.lat_interval[1], c.lat_interval[2]),
                         FloatMid(c.lon_interval[1], c.lon_interval[2])>>)

\* Each decoded coordinate is within half the width of the rectangle after k
\* bisections of its axis, 180/2^k or 360/2^k, of the original.
RoundTripErrorBound ==
    LET p == log[1].args[3]
        d == log[2].ret.val
    IN /\ BigLeq(BigAbs(BigSub(d[1], log[1].args[1])), BigShr(Deg(90), LatBits(p)))
       /\ BigLeq(BigAbs(BigSub(d[2], log[1].args[2])), BigShr(Deg(180), LonBits(p)))

\* The cell is exactly 180/2^k by 360/2^k wide and the decoded point exactly
\* its midpoint.
RoundTripExactCell ==
    LET c == Cell(log[1].ret.val)
        p == log[1].args[3]
        d == log[2].ret.val
    IN /\ BigSub(c.lat_interval[2], c.lat_interval[1]) = BigShr(Deg(180), LatBits(p))
       /\ BigSub(c.lon_interval[2], c.lon_interval[1]) = BigShr(Deg(360), LonBits(p))
       /\ BigAdd(d[1], d[1]) = BigAdd(c.lat_interval[1], c.lat_interval[2])
       /\ BigAdd(d[2], d[2]) = BigAdd(c.lon_interval[1], c.lon_interval[2])

\* C2 as stated: at every precision p >= 0, (lat, lon) lies in the rectangle of
\* encode_geohash(lat, lon, p), decode_geohash returns the midpoint of that
\* rectangle, and each coordinate of it is within half the rectangle's width
\* (180/2^k, 360/2^k after k bisections) of the original.
EncodeDecodeRoundTrip ==
    RoundTripDone =>
        RoundTripContained /\ RoundTripMidpoint /\ RoundTripErrorBound

\* C2 as amended: containment and the midpoint at every precision; the exact
\* widths and the half-width error bound at the precisions up to
\* ExactPrecision, where no bisection rounds.
EncodeDecodeRoundTripExact ==
    RoundTripDone =>
        /\ RoundTripContained
        /\ RoundTripMidpoint
        /\ (log[1].args[3] <= ExactPrecision =>
               RoundTripExactCell /\ RoundTripErrorBound)

\* (57.64911, 10.40744) encoded at precision 6 and decoded.
RoundTripWitness ==
    /\ RoundTripDone
    /\ log[1].args = <<Big(241797892, 89850716), Big(43651967, 29764123), 6>>
    /\ log[1].ret.val = ExampleGeohash
    /\ log[2].ret.val = <<Big(241793280, 0), Big(43660800, 0)>>

\* ------------------------------------------------------------------------
\* C3
\* ------------------------------------------------------------------------

\* The caller packed s and unpacked the integer at precision len(s).
IntRoundTripDone ==
    /\ Len(log) = 2
    /\ log[1].op = "geohash_to_int" /\ log[2].op = "int_to_geohash"
    /\ ~log[1].ret.err
    /\ log[2].args = <<log[1].ret.val, Len(log[1].args[1])>>

\* C3: int_to_geohash(geohash_to_int(s), len(s)) = s for every string s over
\* the alphabet, leading '0' characters included.
IntRoundTrip == IntRoundTripDone => log[2].ret.val = log[1].args[1]

\* '0b', which starts with the character of value 0, made the round trip.
IntRoundTripWitness ==
    /\ IntRoundTripDone
    /\ log[1].args[1] = <<"0", "b">>
    /\ log[1].ret.val = 10
    /\ log[2].ret.val = <<"0", "b">>

\* ------------------------------------------------------------------------
\* C4
\* ------------------------------------------------------------------------

\* C4: encode_geohash(lat, lon, p) has exactly p characters for p >= 0 and is
\* empty for p <= 0, and the result at p1 is a prefix of the result at p2 > p1
\* for the same point.
PrefixMonotonicity ==
    /\ \A i \in 1..Len(log) :
          log[i].op = "encode_geohash" =>
              Len(log[i].ret.val) = IF log[i].args[3] > 0 THEN log[i].args[3] ELSE 0
    /\ \A i, j \in 1..Len(log) :
          (/\ log[i].op = "encode_geohash" /\ log[j].op = "encode_geohash"
           /\ log[i].args[1] = log[j].args[1] /\ log[i].args[2] = log[j].args[2]
           /\ log[i].args[3] < log[j].args[3])
          => IsPrefixOf(log[i].ret.val, log[j].ret.val)

\* (57.64911, 10.40744) encoded at precision 2 and then at precision 6.
PrefixWitness ==
    /\ Len(log) = 2
    /\ log[1].op = "encode_geohash" /\ log[2].op = "encode_geohash"
    /\ log[1].args[3] = 2 /\ log[1].ret.val = <<"u", "4">>
    /\ log[2].args[3] = 6 /\ log[2].ret.val = ExampleGeohash

\* ------------------------------------------------------------------------
\* C5, C6
\* ------------------------------------------------------------------------

SplitCalled == Len(log) = 1 /\ log[1].op = "quadtree_split_geo"

\* The rows and columns of the matrix for a parent of length n.
SplitRows(n) == IF n % 2 = 0 THEN 4 ELSE 8
SplitCols(n) == IF n % 2 = 0 THEN 8 ELSE 4

HasShape(m, n) ==
    /\ DOMAIN m = 1..SplitRows(n)
    /\ \A r \in DOMAIN m : DOMAIN m[r] = 1..SplitCols(n)

\* C5: without bounds the matrix is 4 x 8 for an even-length parent g and 8 x 4
\* for an odd-length one, and its 32 entries are non-empty, pairwise distinct
\* and exactly the strings g + c for the 32 characters c.
ChildrenCoverage ==
    (SplitCalled /\ log[1].args[2] = None /\ log[1].args[3] = None) =>
        LET g == log[1].args[1]
            m == log[1].ret.val
            positions == {<<r, c>> : r \in 1..SplitRows(Len(g)), c \in 1..SplitCols(Len(g))}
        IN /\ HasShape(m, Len(g))
           /\ \A q \in positions : m[q[1]][q[2]] # <<>>
           /\ \A q1, q2 \in positions : q1 # q2 => m[q1[1]][q1[2]] # m[q2[1]][q2[2]]
           /\ {m[q[1]][q[2]] : q \in positions} = {Append(g, c) : c \in Alphabet}

\* The children of the odd-length parent 'b', in 8 rows of 4.
ChildrenWitness ==
    /\ SplitCalled
    /\ log[1].args = <<<<"b">>, None, None>>
    /\ Len(log[1].ret.val) = 8
    /\ log[1].ret.val[1] = <<<<"b", "p">>, <<"b", "r">>, <<"b", "x">>, <<"b", "z">>>>

\* C6: with both bounds supplied (the empty string included), the matrix has
\* the shape of the unfiltered one and holds at each position the unfiltered
\* child if min_bound <= child <= max_bound, and the empty string otherwise.
ChildrenFiltering ==
    (SplitCalled /\ log[1].args[2].some /\ log[1].args[3].some) =>
        LET g == log[1].args[1]
            m == log[1].ret.val
            all == quadtree_split_geo(g, None, None)
        IN /\ HasShape(m, Len(g))
           /\ \A r \in DOMAIN all : \A c \in DOMAIN all[r] :
                 m[r][c] = IF /\ StrLeq(log[1].args[2].v, all[r][c])
                              /\ StrLeq(all[r][c], log[1].args[3].v)
                           THEN all[r][c] ELSE <<>>

\* ------------------------------------------------------------------------
\* C7, C8
\* ------------------------------------------------------------------------

\* The brute-force test: the cell of g lies in the rectangle from the
\* south-west corner of the cell of lo to the north-east corner of that of hi.
InRectangle(g, lo, hi) ==
    /\ BigLeq(Cell(lo).lat_interval[1], Cell(g).lat_interval[1])
    /\ BigLeq(Cell(g).lat_interval[2], Cell(hi).lat_interval[2])
    /\ BigLeq(Cell(lo).lon_interval[1], Cell(g).lon_interval[1])
    /\ BigLeq(Cell(g).lon_interval[2], Cell(hi).lon_interval[2])

\* The cell of lo is neither north nor east of the cell of hi.
NotNorthEastOf(lo, hi) ==
    /\ BigLeq(Cell(lo).lat_interval[1], Cell(hi).lat_interval[1])
    /\ BigLeq(Cell(lo).lon_interval[1], Cell(hi).lon_interval[1])

\* C7: for valid g, min and max of equal length, min not north or east of max,
\* check_within_bounds is true exactly when the brute-force test is.
WithinBoundsIsSpatial ==
    \A i \in 1..Len(log) :
        (/\ log[i].op = "check_within_bounds"
         /\ \A k \in 1..3 : Valid(log[i].args[k]) /\ Len(log[i].args[k]) = Len(log[i].args[1])
         /\ NotNorthEastOf(log[i].args[2], log[i].args[3]))
        => log[i].ret = Ok(InRectangle(log[i].args[1], log[i].args[2], log[i].args[3]))

\* Characters of the compared prefixes order by code point as by 5-bit value.
SameOrder(a) ==
    LET n == Min3(Len(a[1]), Len(a[2]), Len(a[3]))
        cs == {a[k][i] : k \in 1..3, i \in 1..n}
    IN \A c1, c2 \in cs :
          Ord(c1) < Ord(c2) <=> Base32Map[c1] < Base32Map[c2]

BothChecksDone ==
    /\ Len(log) = 2
    /\ log[1].op = "check_within_bounds"
    /\ log[2].op = "check_within_bounds_lexicographic"
    /\ log[2].args = log[1].args
    /\ \A k \in 1..3 : Valid(log[1].args[k])
    /\ SameOrder(log[1].args)

\* C8: on strings over the alphabet whose compared prefixes order the same by
\* code point as by value, the two bounds checks return the same.
BoundsAgreement == BothChecksDone => log[1].ret = log[2].ret

\* within_bounds('u1kwus', 'u1kwum', 'u1kwuu') is true for both.
BoundsAgreementWitness ==
    /\ BothChecksDone
    /\ log[1].args = <<U1kwus, <<"u", "1", "k", "w", "u", "m">>,
                       <<"u", "1", "k", "w", "u", "u">>>>
    /\ log[1].ret = Ok(TRUE) /\ log[2].ret = Ok(TRUE)

\* ------------------------------------------------------------------------
\* C9, C10
\* ------------------------------------------------------------------------

\* C9: decode_geohash, geohash_to_int, neighbor (in each of the 8 directions)
\* and quadtree_split_geo fail on every string that holds a character outside
\* the alphabet, and return nothing.
InvalidCharacterSurfaced ==
    \A i \in 1..Len(log) :
        (/\ log[i].op \in {"decode_geohash", "geohash_to_int", "neighbor",
                           "quadtree_split_geo"}
         /\ ~Valid(log[i].args[1])
         /\ log[i].op = "neighbor" => log[i].args[2] \in Directions)
        => log[i].ret.err

\* C10: for g over the alphabet and each of the 8 directions, neighbor returns
\* the empty string exactly when g is empty, and otherwise a string over the
\* alphabet of the length of g.
NeighborPreservesLength ==
    \A i \in 1..Len(log) :
        (/\ log[i].op = "neighbor"
         /\ Valid(log[i].args[1])
         /\ log[i].args[2] \in Directions)
        => /\ ~log[i].ret.err
           /\ log[i].ret.val = <<>> <=> log[i].args[1] = <<>>
           /\ Len(log[i].ret.val) = Len(log[i].args[1])
           /\ Valid(log[i].ret.val)

\* 'zz' is on the northern border at both levels: its parent's neighbor is the
\* neighbor of 'z', whose parent is the root.
NeighborBorderWitness ==
    /\ Len(log) = 1 /\ log[1].op = "neighbor"
    /\ log[1].args = <<<<"z", "z">>, <<"n">>>>
    /\ log[1].ret = Ok(<<"0", "0">>)
====
